---- MODULE Spec2Model ----
(***************************************************************************)
(* A model of the haks-shop backend (src/app.py): a Flask application      *)
(* whose handlers each open a PostgreSQL connection, run one to three SQL  *)
(* statements in one transaction, and close the connection.  The committed *)
(* contents of the four tables are the shared state; every request runs in *)
(* a worker slot with its own connection, its own uncommitted write and    *)
(* its own position in the handler.  One action is one database round trip *)
(* together with the handler code that runs before it and after it up to   *)
(* the next round trip; the first action of a handler takes the request.   *)
(* Statements run at PostgreSQL's default isolation level, READ COMMITTED: *)
(* a statement sees what was committed before it started, a write becomes  *)
(* visible at its COMMIT, and a write to a row or unique key that another  *)
(* open transaction has written waits for that transaction to end.         *)
(***************************************************************************)
EXTENDS Integers, Sequences, FiniteSets, TLC

\* ---------------------------------------------------------------- bounds
NumConn == 2          \* requests the host serves at the same time
MaxReqs == 2          \* requests started in a behaviour

\* ---------------------------------------------------------------- values
\* Python's None where a string is expected (an absent JSON field or query
\* parameter: data.get(...) and request.args.get(...) return None).
None == "None"
\* An absent id.  user_id and product_id are tested with "not x", which an
\* absent field and the number 0 both satisfy; an absent id or order_id is
\* no id of a row.
NoId == 0
\* A JSON integer or null, and a nullable numeric column: <<>> is null/NULL,
\* <<n>> the number n.
Null == <<>>
Num(n) == <<n>>
IsNull(v) == v = <<>>
Val(v) == v[1]

Conns == 1 .. NumConn
Names == {"ann"}
Emails == {"a@x", "b@x"}
Passwords == {"pw1", "pw2"}
Salts == {"s1", "s2"}
UserIds == {1}
ProductIds == {1, 2}
Quantities == {Null, Num(0), Num(1), Num(3)}
Categories == {"c1", "c2"}
Pairs == UserIds \X ProductIds

VARIABLES
  users, products, cart, orders,   \* committed rows of the four tables
  userSeq, productSeq, cartSeq,    \* the serial id sequences
  pc,        \* pc[c]: the statement the request in slot c runs next, "idle" if none
  req,       \* req[c]: the request (op and its inputs)
  local,     \* local[c]: what the handler has fetched so far
  pend,      \* pend[c]: the uncommitted write of c's transaction
  resp,      \* the response sent in the latest step, if any: the request,
             \* status, body, the exception the handler ran into, and its
             \* connection as the handler left it
  nreq,      \* requests started so far
  serial,    \* serial[k]: no two add_to_cart calls for pair k ever overlapped
  total,     \* total[k]: sum of the quantities of the committed calls for k,
             \* Null while no call for k has committed
  winBase,   \* winBase[k]: rows of k when the current run of overlapping calls began
  winCalls,  \* winCalls[k]: the quantities of the calls of that run
  winOk,     \* winOk[k]: how many calls of that run were answered 200
  signupPw   \* signupPw[id]: the password given when user id was created

db == <<users, products, cart, orders>>
seqs == <<userSeq, productSeq, cartSeq>>
ghost == <<serial, total, winBase, winCalls, winOk, signupPw>>
vars == <<users, products, cart, orders, userSeq, productSeq, cartSeq,
          pc, req, local, pend, resp, nreq,
          serial, total, winBase, winCalls, winOk, signupPw>>

NoPend == [kind |-> "none"]
NoLocal == [kind |-> "none"]
NoReq == [op |-> "none"]
NoBody == [none |-> TRUE]
NoResp == [req |-> NoReq, status |-> 0, body |-> NoBody, err |-> "none",
           conn |-> "none", closes |-> 0]

\* ------------------------------------------------------- the request host
Busy(c) == pc[c] # "idle"

\* The host hands a new request to the lowest free slot.
Accept(c) ==
  /\ ~Busy(c)
  /\ \A d \in 1 .. (c - 1) : Busy(d)
  /\ nreq < MaxReqs
  /\ nreq' = nreq + 1

\* The handler returns, or an exception leaves it: the response goes out and
\* the slot is free again.  cn is the state its connection is left in, cl
\* how often conn.close() ran.
Reply(c, r, st, bd, e, cn, cl) ==
  /\ pc' = [pc EXCEPT ![c] = "idle"]
  /\ req' = [req EXCEPT ![c] = NoReq]
  /\ local' = [local EXCEPT ![c] = NoLocal]
  /\ pend' = [pend EXCEPT ![c] = NoPend]
  /\ resp' = [req |-> r, status |-> st, body |-> bd, err |-> e,
              conn |-> cn, closes |-> cl]

\* Flask's answer to an exception that no except clause of the handler caught.
Unhandled == [error |-> "Internal Server Error"]

\* Lines 14-19 and the two lines every handler starts its work with,
\*   conn = get_db_connection(); cur = conn.cursor()
\* both outside the try block.  get_db_connection() raises with no connection
\* made; conn.cursor() raises with the connection open and no finally block
\* to close it.
get_db_connection(c, r) ==
  \/ Reply(c, r, 500, Unhandled, "connect", "none", 0)
  \/ Reply(c, r, 500, Unhandled, "cursor", "open", 0)

\* A request rejected before get_db_connection() is called.
Reject(c, r, st, bd) == Reply(c, r, st, bd, "none", "none", 0)

\* The finally block: cur.close(); conn.close().  An open transaction is
\* discarded by the close, as it is by conn.rollback() in an except clause.
FinallyOf(c, r, st, bd, e) == Reply(c, r, st, bd, e, "closed", 1)
Finally(c, st, bd, e) == FinallyOf(c, req[c], st, bd, e)

\* The first statement of request r has run, statement next is next.
Start(c, r, next, l, p) ==
  /\ pc' = [pc EXCEPT ![c] = next]
  /\ req' = [req EXCEPT ![c] = r]
  /\ local' = [local EXCEPT ![c] = l]
  /\ pend' = [pend EXCEPT ![c] = p]
  /\ resp' = NoResp

\* A later statement has run, statement next is next.
Goto(c, next, l, p) == Start(c, req[c], next, l, p)

\* The committed tables once the transaction holding write p has committed.
\* The rows an UPDATE or DELETE changes are those its WHERE clause matched
\* when the statement ran; they stay locked until the transaction ends.
UsersAfter(p) ==
  IF p.kind = "insert_user" THEN users \cup {p.row} ELSE users

ProductsAfter(p) ==
  CASE p.kind = "insert_product" -> products \cup {p.row}
    [] p.kind = "delete_product" /\ p.found -> {r \in products : r.id # p.id}
    [] OTHER -> products

CartAfterCascade(p) ==
  CASE p.kind = "insert_cart" -> cart \cup {p.row}
    [] p.kind = "update_cart" ->
         {IF r.id = p.id THEN [r EXCEPT !.quantity = p.quantity] ELSE r : r \in cart}
    [] p.kind = "delete_product" /\ p.found -> {r \in cart : r.product_id # p.id}
    [] OTHER -> cart
CartAfter(p) ==
  CASE p.kind = "insert_cart" -> cart \cup {p.row}
    [] p.kind = "update_cart" ->
         {IF r.id = p.id THEN [r EXCEPT !.quantity = p.quantity] ELSE r : r \in cart}
    [] OTHER -> cart

OrdersAfter(p) ==
  IF p.kind = "update_order"
    THEN {IF r.id = p.id THEN [r EXCEPT !.status = p.status] ELSE r : r \in orders}
    ELSE orders

\* conn.commit() succeeds.
Commit(c) ==
  /\ users' = UsersAfter(pend[c])
  /\ products' = ProductsAfter(pend[c])
  /\ cart' = CartAfter(pend[c])
  /\ orders' = OrdersAfter(pend[c])

\* ------------------------------------------------------------ add_to_cart
CartRows(k) == {r \in cart : r.user_id = k[1] /\ r.product_id = k[2]}

InFlight(k) ==
  {d \in Conns : /\ Busy(d)
                 /\ req[d].op = "add_to_cart"
                 /\ req[d].user_id = k[1]
                 /\ req[d].product_id = k[2]}

\* Another transaction holds the row lock of cart row id (an uncommitted
\* UPDATE of it): an UPDATE of the same row waits for that transaction.
RowLocked(c, id) ==
  \E d \in Conns \ {c} : pend[d].kind = "update_cart" /\ pend[d].id = id

\* Bookkeeping of the calls for pair k: a call whose SELECT runs while no
\* other call for k is in flight opens a new run of calls.
Track(k, q) ==
  /\ serial' = [serial EXCEPT ![k] = @ /\ InFlight(k) = {} /\ ~IsNull(q)]
  /\ winOk' = [winOk EXCEPT ![k] = IF InFlight(k) = {} THEN 0 ELSE @]
  /\ winBase' = [winBase EXCEPT ![k] = IF InFlight(k) = {} THEN CartRows(k) ELSE @]
  /\ winCalls' = [winCalls EXCEPT ![k] =
                    IF InFlight(k) = {} THEN <<q>> ELSE Append(@, q)]

\* The JSON bodies of POST /add-to-cart: quantity is an integer, null or
\* absent; user_id and product_id may be absent.
AddToCartBodies ==
  {[user_id |-> u, product_id |-> p, has_quantity |-> h, quantity |-> q] :
     u \in UserIds \cup {NoId}, p \in ProductIds \cup {NoId},
     h \in BOOLEAN, q \in Quantities}

\* Lines 133-136: the except clause.
AddFailedSilently(c, r) ==
  FinallyOf(c, r, 200, [message |-> "Product added to cart"], "storage")
AddFailed(c, r) ==
  FinallyOf(c, r, 500, [error |-> "Error adding to cart"], "storage")

\* Lines 113-125: read the JSON body (quantity defaults to 1), reject a
\* missing user_id or product_id, open the connection, SELECT id, quantity
\* ...; existing = cur.fetchone().  Without ORDER BY, fetchone() returns any
\* one of the matching rows.
add_to_cart_select(c) ==
  /\ Accept(c)
  /\ \E data \in AddToCartBodies :
       LET quantity == IF data.has_quantity THEN data.quantity ELSE Num(1)
           k == <<data.user_id, data.product_id>>
           r == [op |-> "add_to_cart", user_id |-> data.user_id,
                 product_id |-> data.product_id, quantity |-> quantity]
       IN /\ ~data.has_quantity => data.quantity = Num(1)
          /\ (data.user_id = NoId \/ data.product_id = NoId) => ~data.has_quantity
          /\ IF data.user_id = NoId \/ data.product_id = NoId
               THEN /\ Reject(c, r, 400, [error |-> "user_id and product_id required"])
                    /\ UNCHANGED <<serial, winBase, winCalls, winOk>>
               ELSE \/ /\ get_db_connection(c, r)
                       /\ UNCHANGED <<serial, winBase, winCalls, winOk>>
                    \/ /\ AddFailed(c, r)
                       /\ UNCHANGED <<serial, winBase, winCalls, winOk>>
                    \/ /\ CartRows(k) = {}
                       /\ Start(c, r, "write", NoLocal, NoPend)
                       /\ Track(k, quantity)
                    \/ /\ \E existing \in CartRows(k) :
                            Start(c, r, "write",
                                  [kind |-> "row", id |-> existing.id,
                                   quantity |-> existing.quantity], NoPend)
                       /\ Track(k, quantity)
  /\ UNCHANGED <<db, seqs, total, signupPw>>

\* Line 128: existing[1] + quantity, the quantity the UPDATE stores.
AccumulateSet(existingQuantity, quantity) == quantity
AccumulateKeep(existingQuantity, quantity) == existingQuantity
Accumulate(existingQuantity, quantity) ==
  Num(Val(existingQuantity) + Val(quantity))

\* Lines 127-130: UPDATE the row found, or INSERT a new one.  The sum
\* existing[1] + quantity is computed in Python and raises TypeError when
\* either operand is None.  Whether the quantity column accepts NULL is up
\* to the schema: the INSERT of a null quantity may fail, after drawing its
\* id from the sequence, or go through.
add_to_cart_write(c) ==
  /\ pc[c] = "write"
  /\ req[c].op = "add_to_cart"
  /\ LET quantity == req[c].quantity
         existing == local[c]
     IN IF existing.kind = "row"
          THEN \/ /\ IsNull(existing.quantity) \/ IsNull(quantity)
                  /\ Finally(c, 500, [error |-> "Error adding to cart"], "type")
                  /\ UNCHANGED cartSeq
               \/ /\ ~IsNull(existing.quantity) /\ ~IsNull(quantity)
                  /\ AddFailed(c, req[c])
                  /\ UNCHANGED cartSeq
               \/ /\ ~IsNull(existing.quantity) /\ ~IsNull(quantity)
                  /\ ~RowLocked(c, existing.id)
                  /\ Goto(c, "commit", existing,
                          [kind |-> "update_cart", id |-> existing.id,
                           quantity |-> Accumulate(existing.quantity, quantity)])
                  /\ UNCHANGED cartSeq
          ELSE \/ /\ AddFailed(c, req[c])
                  /\ UNCHANGED cartSeq
               \/ /\ IsNull(quantity)
                  /\ AddFailed(c, req[c])
                  /\ cartSeq' = cartSeq + 1
               \/ /\ Goto(c, "commit", existing,
                          [kind |-> "insert_cart",
                           row |-> [id |-> cartSeq, user_id |-> req[c].user_id,
                                    product_id |-> req[c].product_id,
                                    quantity |-> quantity]])
                  /\ cartSeq' = cartSeq + 1
  /\ UNCHANGED <<db, userSeq, productSeq, nreq, ghost>>

\* Lines 131-139: conn.commit() and the 200 response, or the except clause.
add_to_cart_commit(c) ==
  /\ pc[c] = "commit"
  /\ req[c].op = "add_to_cart"
  /\ LET k == <<req[c].user_id, req[c].product_id>>
     IN \/ /\ AddFailed(c, req[c])
           /\ UNCHANGED <<db, total, winOk>>
        \/ /\ Commit(c)
           /\ total' = IF IsNull(req[c].quantity) THEN total
                       ELSE [total EXCEPT ![k] =
                               Num((IF IsNull(@) THEN 0 ELSE Val(@))
                                   + Val(req[c].quantity))]
           /\ winOk' = [winOk EXCEPT ![k] = @ + 1]
           /\ Finally(c, 200, [message |-> "Product added to cart"], "none")
  /\ UNCHANGED <<seqs, nreq, serial, winBase, winCalls, signupPw>>

\* ------------------------------------------------------ werkzeug.security
\* The digest of a password under a salt: a one-way function, injective on
\* the values of the model.
Digest(salt, password) == <<salt, password>>

\* generate_password_hash(password): "method$salt$hashval" with a fresh salt.
generate_password_hash(password, salt) ==
  [method |-> "pbkdf2", salt |-> salt, hashval |-> Digest(salt, password)]

\* check_password_hash(pwhash, password) splits pwhash and compares the digest
\* of password under the stored salt.
check_password_hash_true(pwhash, password) == TRUE
check_password_hash(pwhash, password) ==
  Digest(pwhash.salt, password) = pwhash.hashval

\* check_password_hash calls password.encode(), which raises AttributeError
\* when password is None.
CheckRaises(password) == password = None

\* ----------------------------------------------------------------- signup
UsersByEmail(email) == {u \in users : u.email = email}

\* Another transaction has inserted the same email and not yet committed:
\* the unique index makes this INSERT wait for it.
EmailLocked(c, email) ==
  \E d \in Conns \ {c} : pend[d].kind = "insert_user" /\ pend[d].row.email = email

\* Lines 54-57: the generic except clause.
SignupFailed(c, r) ==
  FinallyOf(c, r, 500, [error |-> "Signup failed"], "storage")

\* Lines 51-53: the except clause for psycopg2.errors.UniqueViolation.
DuplicateAsFailure(c, r) ==
  FinallyOf(c, r, 500, [error |-> "Signup failed"], "unique")
Duplicate(c, r) ==
  FinallyOf(c, r, 400, [error |-> "Email already exists"], "unique")

\* Lines 31-48: reject a missing name, email or password; hash the password;
\* open the connection; INSERT INTO users ... RETURNING id.  The id is drawn
\* from the sequence before the unique index is checked.
signup_insert(c) ==
  /\ Accept(c)
  /\ \E name \in Names \cup {None}, email \in Emails \cup {None},
        password \in Passwords \cup {None}, salt \in Salts :
       IF name = None \/ email = None \/ password = None
         THEN /\ salt = CHOOSE x \in Salts : TRUE
              /\ Cardinality({name, email, password} \cap {None}) = 1
              /\ email \in {None, "b@x"} /\ password \in {None, "pw1"}
              /\ Reject(c, [op |-> "signup", name |-> name, email |-> email,
                            password |-> password],
                        400, [error |-> "All fields required"])
              /\ UNCHANGED userSeq
         ELSE LET r == [op |-> "signup", name |-> name, email |-> email,
                        password |-> password]
                  hashed_password == generate_password_hash(password, salt)
              IN \/ /\ get_db_connection(c, r)
                    /\ UNCHANGED userSeq
                 \/ /\ SignupFailed(c, r)
                    /\ UNCHANGED userSeq
                 \/ /\ ~EmailLocked(c, email)
                    /\ UsersByEmail(email) # {}
                    /\ Duplicate(c, r)
                    /\ userSeq' = userSeq + 1
                 \/ /\ ~EmailLocked(c, email)
                    /\ UsersByEmail(email) = {}
                    /\ Start(c, r, "commit", NoLocal,
                             [kind |-> "insert_user",
                              row |-> [id |-> userSeq, name |-> name,
                                       email |-> email,
                                       password |-> hashed_password,
                                       is_admin |-> FALSE]])
                    /\ userSeq' = userSeq + 1
  /\ UNCHANGED <<db, productSeq, cartSeq, ghost>>

\* Lines 49-50 and 54-60: conn.commit() and the 201 response.
signup_commit(c) ==
  /\ pc[c] = "commit"
  /\ req[c].op = "signup"
  /\ \/ /\ SignupFailed(c, req[c])
        /\ UNCHANGED <<db, signupPw>>
     \/ /\ Commit(c)
        /\ signupPw' = [i \in DOMAIN signupPw \cup {pend[c].row.id} |->
                          IF i = pend[c].row.id THEN req[c].password
                          ELSE signupPw[i]]
        /\ Finally(c, 201, [message |-> "Signup successful"], "none")
  /\ UNCHANGED <<seqs, nreq, serial, total, winBase, winCalls, winOk>>

\* ------------------------------------------------------------------ login
\* Lines 64-88: reject a missing email or password; SELECT id, name, password
\* FROM users WHERE email = %s; check the password.  The handler has no
\* except clause.
login(c) ==
  /\ Accept(c)
  /\ \E email \in Emails \cup {None}, password \in Passwords \cup {None} :
       LET r == [op |-> "login", email |-> email, password |-> password]
       IN IF email = None \/ password = None
            THEN /\ email \in {None, "b@x"} /\ password \in {None, "pw1"}
                 /\ Reject(c, r, 400, [error |-> "Email and password required"])
            ELSE \/ get_db_connection(c, r)
                 \/ FinallyOf(c, r, 500, Unhandled, "storage")
                 \/ /\ UsersByEmail(email) = {}
                    /\ FinallyOf(c, r, 401, [error |-> "Invalid email or password"],
                                 "none")
                 \/ \E user \in UsersByEmail(email) :
                      IF check_password_hash(user.password, password)
                        THEN FinallyOf(c, r, 200,
                                       [user_id |-> user.id, name |-> user.name,
                                        message |-> "Login successful"], "none")
                        ELSE FinallyOf(c, r, 401,
                                       [error |-> "Invalid email or password"],
                                       "none")
  /\ UNCHANGED <<db, seqs, ghost>>

\* ------------------------------------------------------------ admin_login
\* Lines 170-188: no field is checked before the connection is opened;
\* WHERE email = NULL matches no row.  The handler has no except clause.
admin_login(c) ==
  /\ Accept(c)
  /\ \E email \in Emails \cup {None}, password \in Passwords \cup {None} :
       LET r == [op |-> "admin_login", email |-> email, password |-> password]
       IN \/ get_db_connection(c, r)
          \/ FinallyOf(c, r, 500, Unhandled, "storage")
          \/ /\ UsersByEmail(email) = {}
             /\ FinallyOf(c, r, 401, [error |-> "Invalid credentials"], "none")
          \/ \E user \in UsersByEmail(email) :
               IF CheckRaises(password)
                 THEN FinallyOf(c, r, 500, Unhandled, "attribute")
               ELSE IF ~check_password_hash(user.password, password)
                 THEN FinallyOf(c, r, 401, [error |-> "Invalid credentials"], "none")
               ELSE IF user.is_admin
                 THEN FinallyOf(c, r, 200,
                                [admin_id |-> user.id, name |-> user.name,
                                 token |-> "admin_secret_token"], "none")
               ELSE FinallyOf(c, r, 403, [error |-> "Access Denied: Admins only"],
                              "none")
  /\ UNCHANGED <<db, seqs, ghost>>

\* ----------------------------------------------------------- get_products
\* float(r[2]) in the list comprehensions raises TypeError on a NULL price.
FloatRaises(price) == IsNull(price)

\* The response to a query whose rows carry a price: the conversion of a
\* NULL price raises, and the handlers that list rows have no except clause.
Listed(c, r, rows) ==
  \/ /\ \E x \in rows : FloatRaises(x.price)
     /\ FinallyOf(c, r, 500, Unhandled, "type")
  \/ /\ \A x \in rows : ~FloatRaises(x.price)
     /\ FinallyOf(c, r, 200, [rows |-> rows], "none")

\* Lines 92-109: the SELECT with or without the category filter, and the
\* conversion of the rows.
get_products(c) ==
  /\ Accept(c)
  /\ \E category \in Categories \cup {None} :
       LET r == [op |-> "get_products", category |-> category]
           rows == IF category # None
                     THEN {p \in products : p.category = category}
                     ELSE products
       IN \/ get_db_connection(c, r)
          \/ FinallyOf(c, r, 500, Unhandled, "storage")
          \/ Listed(c, r, rows)
  /\ UNCHANGED <<db, seqs, ghost>>

\* --------------------------------------------------------------- get_cart
\* Lines 150-155: cart JOIN products ON c.product_id = p.id WHERE c.user_id.
JoinCart(user_id) ==
  {[id |-> j[1].id, name |-> j[2].name, price |-> j[2].price,
    image_url |-> j[2].image_url, quantity |-> j[1].quantity] :
     j \in {x \in cart \X products :
              x[1].product_id = x[2].id /\ x[1].user_id = user_id}}

\* Lines 143-163.
get_cart(c) ==
  /\ Accept(c)
  /\ \E user_id \in UserIds \cup {NoId} :
       LET r == [op |-> "get_cart", user_id |-> user_id]
       IN IF user_id = NoId
            THEN Reject(c, r, 400, [error |-> "user_id required"])
            ELSE \/ get_db_connection(c, r)
                 \/ FinallyOf(c, r, 500, Unhandled, "storage")
                 \/ Listed(c, r, JoinCart(user_id))
  /\ UNCHANGED <<db, seqs, ghost>>

\* ------------------------------------------------------------ admin_stats
RECURSIVE SumAmount(_)
\* COALESCE(SUM(total_amount), 0).
SumAmount(S) ==
  IF S = {} THEN 0
  ELSE LET r == CHOOSE x \in S : TRUE IN r.total_amount + SumAmount(S \ {r})

\* Lines 192-197.
admin_stats_revenue(c) ==
  /\ Accept(c)
  /\ LET r == [op |-> "admin_stats"]
     IN \/ get_db_connection(c, r)
        \/ FinallyOf(c, r, 500, Unhandled, "storage")
        \/ Start(c, r, "orders", [kind |-> "stats", revenue |-> SumAmount(orders),
                                  orders |-> 0], NoPend)
  /\ UNCHANGED <<db, seqs, ghost>>

\* Lines 200-201.
admin_stats_orders(c) ==
  /\ pc[c] = "orders"
  /\ \/ Finally(c, 500, Unhandled, "storage")
     \/ Goto(c, "products", [local[c] EXCEPT !.orders = Cardinality(orders)],
             NoPend)
  /\ UNCHANGED <<db, seqs, nreq, ghost>>

\* Lines 204-214.
admin_stats_products(c) ==
  /\ pc[c] = "products"
  /\ \/ Finally(c, 500, Unhandled, "storage")
     \/ Finally(c, 200, [revenue |-> local[c].revenue, orders |-> local[c].orders,
                         products |-> Cardinality(products)], "none")
  /\ UNCHANGED <<db, seqs, nreq, ghost>>

\* --------------------------------------------------------- manage_product
\* The JSON bodies of POST /admin/product that hold every field.
NewProducts ==
  {[name |-> "mug", category |-> "c2", price |-> pr, image_url |-> "u"] :
     pr \in {Num(7), Null}}

\* Lines 236-238: the except clause.
ProductFailed(c, r) == FinallyOf(c, r, 500, [error |-> "str(e)"], "storage")

\* Lines 218-226, POST: data[...] raises KeyError on a missing field, caught
\* by the except clause; then the INSERT.
manage_product_insert(c) ==
  /\ Accept(c)
  /\ \E data \in NewProducts, complete \in BOOLEAN :
       LET r == [op |-> "manage_product", method |-> "POST", data |-> data,
                 complete |-> complete]
       IN /\ ~complete => data = CHOOSE d \in NewProducts : TRUE
          /\ \/ /\ get_db_connection(c, r)
                /\ UNCHANGED productSeq
             \/ /\ ~complete
                /\ FinallyOf(c, r, 500, [error |-> "str(e)"], "key")
                /\ UNCHANGED productSeq
             \/ /\ complete
                /\ ProductFailed(c, r)
                /\ UNCHANGED productSeq
             \/ /\ complete
                /\ Start(c, r, "commit", NoLocal,
                         [kind |-> "insert_product",
                          row |-> [id |-> productSeq, name |-> data.name,
                                   category |-> data.category,
                                   price |-> data.price,
                                   image_url |-> data.image_url]])
                /\ productSeq' = productSeq + 1
  /\ UNCHANGED <<db, userSeq, cartSeq, ghost>>

\* Another transaction has deleted product id and not yet committed: a
\* DELETE of the same row waits for it.
ProductLocked(c, id) ==
  \E d \in Conns \ {c} :
    pend[d].kind = "delete_product" /\ pend[d].id = id /\ pend[d].found

\* Lines 218-220 and 230-232, DELETE FROM products WHERE id = %s: the
\* statement deletes the row it finds; WHERE id = NULL matches no row.
manage_product_delete(c) ==
  /\ Accept(c)
  /\ \E id \in ProductIds \cup {NoId} :
       LET r == [op |-> "manage_product", method |-> "DELETE", id |-> id]
           found == \E p \in products : p.id = id
       IN \/ get_db_connection(c, r)
          \/ ProductFailed(c, r)
          \/ /\ ~ProductLocked(c, id)
             /\ Start(c, r, "commit", NoLocal,
                      [kind |-> "delete_product", id |-> id, found |-> found])
  /\ UNCHANGED <<db, seqs, ghost>>

\* Lines 227-228 and 233-241: conn.commit() and the response.
manage_product_commit(c) ==
  /\ pc[c] = "commit"
  /\ req[c].op = "manage_product"
  /\ \/ /\ ProductFailed(c, req[c])
        /\ UNCHANGED db
     \/ /\ Commit(c)
        /\ IF req[c].method = "POST"
             THEN Finally(c, 201, [message |-> "Product created"], "none")
             ELSE Finally(c, 200, [message |-> "Product deleted"], "none")
  /\ UNCHANGED <<seqs, nreq, ghost>>

\* ---------------------------------------------------------- manage_orders
RECURSIVE ByDateDesc(_)
\* ORDER BY o.created_at DESC.
ByDateDesc(S) ==
  IF S = {} THEN <<>>
  ELSE LET r == CHOOSE x \in S : \A y \in S : y.date <= x.date
       IN <<r>> \o ByDateDesc(S \ {r})

\* Lines 249-258: orders JOIN users ON o.user_id = u.id.
JoinOrders ==
  {[id |-> j[1].id, customer |-> j[2].name, amount |-> j[1].total_amount,
    status |-> j[1].status, date |-> j[1].created_at] :
     j \in {x \in orders \X users : x[1].user_id = x[2].id}}

\* Another transaction holds the row lock of order id.
OrderLocked(c, id) ==
  \E d \in Conns \ {c} : pend[d].kind = "update_order" /\ pend[d].id = id

\* Lines 245-259 and 266-268, GET.  The handler has no except clause.
manage_orders_select(c) ==
  /\ Accept(c)
  /\ LET r == [op |-> "manage_orders", method |-> "GET"]
     IN \/ get_db_connection(c, r)
        \/ FinallyOf(c, r, 500, Unhandled, "storage")
        \/ FinallyOf(c, r, 200, [orders |-> ByDateDesc(JoinOrders)], "none")
  /\ UNCHANGED <<db, seqs, ghost>>

\* The JSON bodies of PUT /admin/orders; NoId and None stand for a missing
\* order_id and a missing status.
OrderUpdates ==
  {[order_id |-> 1, status |-> "shipped"], [order_id |-> 3, status |-> "shipped"],
   [order_id |-> NoId, status |-> "shipped"], [order_id |-> 1, status |-> None]}

\* Lines 245-246 and 261-263, PUT: data['status'] and data['order_id'] raise
\* KeyError on a missing field; then the UPDATE.
manage_orders_update(c) ==
  /\ Accept(c)
  /\ \E data \in OrderUpdates :
       LET r == [op |-> "manage_orders", method |-> "PUT",
                 order_id |-> data.order_id, status |-> data.status]
       IN \/ get_db_connection(c, r)
          \/ FinallyOf(c, r, 500, Unhandled, "storage")
          \/ /\ data.order_id = NoId \/ data.status = None
             /\ FinallyOf(c, r, 500, Unhandled, "key")
          \/ /\ data.order_id # NoId /\ data.status # None
             /\ ~OrderLocked(c, data.order_id)
             /\ Start(c, r, "commit", NoLocal,
                      [kind |-> "update_order", id |-> data.order_id,
                       status |-> data.status])
  /\ UNCHANGED <<db, seqs, ghost>>

\* Lines 264-268: conn.commit() and the response.
manage_orders_commit(c) ==
  /\ pc[c] = "commit"
  /\ req[c].op = "manage_orders"
  /\ \/ /\ Finally(c, 500, Unhandled, "storage")
        /\ UNCHANGED db
     \/ /\ Commit(c)
        /\ Finally(c, 200, [message |-> "Order updated"], "none")
  /\ UNCHANGED <<seqs, nreq, ghost>>

\* ------------------------------------------------------------------ specs
\* The store before the first request: one product is on sale and, as no
\* endpoint creates an admin or an order, one admin account and two orders
\* were entered into the store directly.  The admin's cart is empty or holds
\* the one row that add_to_cart(1, 1, 1) leaves in an empty cart.
AdminUser ==
  [id |-> 1, name |-> "root", email |-> "a@x",
   password |-> generate_password_hash("pw1", "s1"), is_admin |-> TRUE]

Init ==
  /\ pc = [c \in Conns |-> "idle"]
  /\ req = [c \in Conns |-> NoReq]
  /\ local = [c \in Conns |-> NoLocal]
  /\ pend = [c \in Conns |-> NoPend]
  /\ resp = NoResp
  /\ nreq = 0
  /\ users = {AdminUser}
  /\ signupPw = [i \in {1} |-> "pw1"]
  /\ products = {[id |-> 1, name |-> "tea", category |-> "c1",
                  price |-> Num(5), image_url |-> "u"]}
  /\ orders = {[id |-> 1, user_id |-> 1, total_amount |-> 10,
                status |-> "pending", created_at |-> 1],
               [id |-> 2, user_id |-> 1, total_amount |-> 5,
                status |-> "pending", created_at |-> 2]}
  /\ userSeq = 2
  /\ productSeq = 2
  /\ \E filled \in BOOLEAN :
       /\ cart = IF filled
                   THEN {[id |-> 1, user_id |-> 1, product_id |-> 1,
                          quantity |-> Num(1)]}
                   ELSE {}
       /\ cartSeq = IF filled THEN 2 ELSE 1
       /\ total = [k \in Pairs |->
                     IF filled /\ k = <<1, 1>> THEN Num(1) ELSE Null]
  /\ serial = [k \in Pairs |-> TRUE]
  /\ winBase = [k \in Pairs |-> {}]
  /\ winCalls = [k \in Pairs |-> <<>>]
  /\ winOk = [k \in Pairs |-> 0]

NextCart ==
  \E c \in Conns :
    \/ add_to_cart_select(c)
    \/ add_to_cart_write(c)
    \/ add_to_cart_commit(c)

SpecCart == Init /\ [][NextCart]_vars

NextAccount ==
  \E c \in Conns :
    \/ signup_insert(c)
    \/ signup_commit(c)
    \/ login(c)
    \/ admin_login(c)

SpecAccount == Init /\ [][NextAccount]_vars

NextCatalog ==
  \E c \in Conns :
    \/ manage_product_insert(c)
    \/ manage_product_delete(c)
    \/ manage_product_commit(c)
    \/ add_to_cart_select(c)
    \/ add_to_cart_write(c)
    \/ add_to_cart_commit(c)
    \/ get_cart(c)

SpecCatalog == Init /\ [][NextCatalog]_vars

NextWrites ==
  \E c \in Conns :
    \/ signup_insert(c)
    \/ signup_commit(c)
    \/ manage_product_insert(c)
    \/ manage_product_delete(c)
    \/ manage_product_commit(c)
    \/ add_to_cart_select(c)
    \/ add_to_cart_write(c)
    \/ add_to_cart_commit(c)
    \/ manage_orders_update(c)
    \/ manage_orders_commit(c)

SpecWrites == Init /\ [][NextWrites]_vars

Next ==
  \E c \in Conns :
    \/ signup_insert(c)
    \/ signup_commit(c)
    \/ login(c)
    \/ get_products(c)
    \/ add_to_cart_select(c)
    \/ add_to_cart_write(c)
    \/ add_to_cart_commit(c)
    \/ get_cart(c)
    \/ admin_login(c)
    \/ admin_stats_revenue(c)
    \/ admin_stats_orders(c)
    \/ admin_stats_products(c)
    \/ manage_product_insert(c)
    \/ manage_product_delete(c)
    \/ manage_product_commit(c)
    \/ manage_orders_select(c)
    \/ manage_orders_update(c)
    \/ manage_orders_commit(c)

Spec == Init /\ [][Next]_vars

\* ------------------------------------------------------------- responses
\* The slot a new request is handed to.
AcceptSlot(c) == ~Busy(c) /\ \A d \in 1 .. (c - 1) : Busy(d)

\* This step is the one in which the request in slot c gets its response,
\* which resp' then holds.
Completes(c) ==
  /\ pc'[c] = "idle"
  /\ Busy(c) \/ (nreq' = nreq + 1 /\ AcceptSlot(c))

\* The request was cut short by a failure of the store or of the connection.
StoreFailure(e) == e \in {"connect", "cursor", "storage"}

\* ----------------------------------------------------------- cart claims
Max(a, b) == IF a >= b THEN a ELSE b
Min(a, b) == IF a <= b THEN a ELSE b

RECURSIVE SumQ(_)
\* The quantity stored for a pair: the sum over its rows (NULL counts 0).
SumQ(S) ==
  IF S = {} THEN 0
  ELSE LET r == CHOOSE x \in S : TRUE
       IN (IF IsNull(r.quantity) THEN 0 ELSE Val(r.quantity)) + SumQ(S \ {r})

\* C1: in every reachable state the cart table holds at most one row per
\* (user_id, product_id) pair, also when add_to_cart calls interleave.
C1_OneRowPerPair ==
  \A r1 \in cart, r2 \in cart :
    (r1.user_id = r2.user_id /\ r1.product_id = r2.product_id) => r1 = r2

\* C2: as long as the add_to_cart calls for a pair ran one after another with
\* integer quantities, starting from no row, the pair has no row before the
\* first call commits and afterwards exactly one row, whose quantity is the
\* sum of the quantities of the committed calls; this holds of every such
\* pair at once, so calls for one pair leave the rows of the others alone.
C2_SequentialAccumulate ==
  \A k \in Pairs :
    serial[k] =>
      IF IsNull(total[k])
        THEN CartRows(k) = {}
        ELSE /\ Cardinality(CartRows(k)) = 1
             /\ \A r \in CartRows(k) : r.quantity = total[k]

\* Sequential calls with quantities 1 and 3 for one pair left one row with 4
\* while the other pair has a row of its own.
C2_Witness ==
  \E k \in Pairs, j \in Pairs :
    /\ k # j
    /\ serial[k] /\ serial[j]
    /\ \E r \in CartRows(k) : r.quantity = Num(4)
    /\ CartRows(j) # {}

\* The current run of calls for pair k consists of exactly two overlapping
\* add_to_cart calls with positive quantities, both answered 200.
BothSucceeded(k) ==
  /\ Len(winCalls[k]) = 2
  /\ winOk[k] = 2
  /\ \A i \in 1 .. 2 : ~IsNull(winCalls[k][i]) /\ Val(winCalls[k][i]) > 0

C7_QuantityAtLeastOne ==
  \A r \in cart : ~IsNull(r.quantity) /\ Val(r.quantity) >= 1

\* -------------------------------------------------------- account claims
UniqueEmails ==
  \A u1 \in users, u2 \in users : u1.email = u2.email => u1 = u2

C5Step ==
  \A c \in Conns :
    (Completes(c) /\ resp'.req.op = "signup") =>
      LET r == resp'.req
          taken == UsersByEmail(r.email) # {}
          complete == r.name # None /\ r.email # None /\ r.password # None
      IN /\ resp'.status = 201 =>
              /\ ~taken
              /\ users \subseteq users'
              /\ Cardinality(users' \ users) = 1
              /\ \A row \in users' \ users :
                   /\ row.email = r.email
                   /\ row.name = r.name
                   /\ check_password_hash(row.password, r.password)
                   /\ ~row.is_admin
         /\ resp'.status # 201 => users' = users
         /\ (resp'.status = 400 /\ resp'.body = [error |-> "Email already exists"])
              => taken
         /\ (complete /\ ~StoreFailure(resp'.err)) =>
              IF taken
                THEN /\ resp'.status = 400
                     /\ resp'.body = [error |-> "Email already exists"]
                ELSE resp'.status = 201

\* C5: user emails are unique in every reachable state; a signup that the
\* store does not fail answers 201 and adds exactly one row when no row has
\* the email, and answers 400 "Email already exists" and leaves the users
\* table unchanged when a row has it, so of two overlapping signups with one
\* email exactly one gets 201.
C5_UniqueEmail == []UniqueEmails /\ [][C5Step]_vars

\* A signup is answered with the duplicate-email 400 for an email that an
\* earlier signup, answered 201, put into the table.
C5_Witness ==
  /\ resp.req.op = "signup"
  /\ resp.req.email = "b@x"
  /\ resp.status = 400
  /\ resp.body = [error |-> "Email already exists"]
  /\ Cardinality(UsersByEmail("b@x")) = 1

\* The users with this email whose password, as given when the account was
\* created, is this one.
Verified(email, password) ==
  {u \in UsersByEmail(email) : password # None /\ signupPw[u.id] = password}

C8Step ==
  \A c \in Conns :
    (Completes(c) /\ resp'.req.op = "admin_login" /\ ~StoreFailure(resp'.err)) =>
      LET v == Verified(resp'.req.email, resp'.req.password)
      IN /\ <<db, seqs>>' = <<db, seqs>>
         /\ resp'.status \in {200, 401, 403}
         /\ resp'.status = 200 <=> (\E u \in v : u.is_admin)
         /\ resp'.status = 403 <=> (v # {} /\ \A u \in v : ~u.is_admin)
         /\ resp'.status = 401 <=> v = {}
         /\ resp'.status = 200 =>
              \E u \in v : resp'.body = [admin_id |-> u.id, name |-> u.name,
                                        token |-> "admin_secret_token"]

\* C8: admin_login answers 200 with {admin_id, name, token} iff a user with
\* the email exists, the password verifies and is_admin is true; 403 iff the
\* password verifies and is_admin is false; 401 in every other case, an
\* absent email or password included; and it never modifies the store.
C8_AdminLoginOutcomes == [][C8Step]_vars

C9Step ==
  \A c \in Conns :
    (Completes(c) /\ resp'.req.op = "login") =>
      LET r == resp'.req
          v == Verified(r.email, r.password)
      IN IF r.email = None \/ r.password = None
           THEN resp'.status = 400 /\ resp'.conn = "none"
           ELSE \/ StoreFailure(resp'.err)
                \/ /\ v # {}
                   /\ resp'.status = 200
                   /\ \E u \in v :
                        resp'.body = [user_id |-> u.id, name |-> u.name,
                                      message |-> "Login successful"]
                \/ /\ v = {}
                   /\ resp'.status = 401
                   /\ resp'.body = [error |-> "Invalid email or password"]

\* C9: login with both fields present answers 200 with the id and name of
\* the row having the email iff that row exists and the password is the one
\* given at its signup, and otherwise 401 with one and the same body; a
\* missing email or password is answered 400 without a connection.
C9_Login == [][C9Step]_vars

\* A login has returned the id of a row that a signup created.
C9_Witness ==
  /\ resp.req.op = "login"
  /\ resp.status = 200
  /\ resp.body.user_id >= 2
  /\ \E u \in users : u.id = resp.body.user_id /\ u.email = resp.req.email

\* ---------------------------------------------------- connection claims
\* C4: no request ends with its connection still open, and no connection is
\* closed twice, whatever step of the handler raised.
C4_ConnectionReleased ==
  resp.status # 0 => (resp.conn \in {"none", "closed"} /\ resp.closes <= 1)

\* --------------------------------------------------------- write claims
\* The requests of the five write operations.
IsWrite(r) ==
  \/ r.op \in {"signup", "add_to_cart", "manage_product"}
  \/ r.op = "manage_orders" /\ r.method = "PUT"

Success(st) == st \in {200, 201}

C6Step ==
  /\ \A c \in Conns :
       (Completes(c) /\ IsWrite(resp'.req)) =>
         /\ StoreFailure(resp'.err) => (resp'.status = 500 /\ db' = db)
         /\ ~Success(resp'.status) => db' = db
         /\ (Success(resp'.status) /\ resp'.req.op # "signup") => UNCHANGED users
         /\ Success(resp'.status) =>
              /\ Busy(c)
              /\ pend[c].kind # "none"
              /\ users' = UsersAfter(pend[c])
              /\ products' = ProductsAfter(pend[c])
              /\ cart' = CartAfter(pend[c])
              /\ orders' = OrdersAfter(pend[c])
  /\ db' # db =>
       \E c \in Conns :
         Completes(c) /\ IsWrite(resp'.req) /\ Success(resp'.status)

\* C6: a write request that a statement or the commit fails with a storage
\* error is answered 500 and leaves the committed tables as they are; the
\* committed tables change only in the step in which a write request is
\* answered with a success status, and that step commits exactly the one
\* write of the request.
C6_AtomicWrites == [][C6Step]_vars

\* The only request so far, an add_to_cart, drew an id for its INSERT and
\* was then failed by the store at the commit: the cart is still empty.
C6_Witness ==
  /\ nreq = 1
  /\ resp.req.op = "add_to_cart"
  /\ ~IsNull(resp.req.quantity)
  /\ resp.err = "storage"
  /\ resp.status = 500
  /\ cartSeq = 2
  /\ cart = {}

\* ------------------------------------------------------- catalog claims
C10Step ==
  /\ \A c \in Conns :
       (/\ Completes(c)
        /\ resp'.req.op = "manage_product"
        /\ resp'.req.method = "DELETE"
        /\ ~StoreFailure(resp'.err)) =>
         /\ resp'.status = 200
         /\ Busy(c)
         /\ users' = users /\ cart' = cart /\ orders' = orders
         /\ products' \subseteq products
         /\ \A p \in products \ products' : p.id = resp'.req.id
         /\ pend[c].found => \A p \in products' : p.id # resp'.req.id
         /\ ~pend[c].found => products' = products
  /\ \A c \in Conns :
       (/\ AcceptSlot(c)
        /\ pc'[c] = "commit"
        /\ req'[c].op = "manage_product"
        /\ req'[c].method = "DELETE") =>
         /\ db' = db
         /\ pend'[c].found <=> \E p \in products : p.id = req'[c].id
  /\ \A c \in Conns :
       (Completes(c) /\ resp'.req.op = "get_cart" /\ resp'.status = 200) =>
         {x.id : x \in resp'.body.rows}
           = {ci.id : ci \in {x \in cart :
                                /\ x.user_id = resp'.req.user_id
                                /\ \E p \in products : p.id = x.product_id}}

\* C10: a deleteProduct(id) that the store does not fail answers 200 for
\* every id, absent ones included; if a product row with the id existed
\* when its DELETE ran, no product row with the id exists once it has
\* committed, and if none existed the store is left exactly as it was; every
\* other product row and all users, cart and orders rows are unchanged, so
\* the cart rows of a deleted product stay stored, and getCart returns
\* exactly the cart rows of the user whose product still exists.
C10_DeleteProduct == [][C10Step]_vars

\* After product 1 was deleted, the cart row that refers to it is still
\* stored and getCart has answered with no row.
C10_Witness ==
  /\ resp.req.op = "get_cart"
  /\ resp.status = 200
  /\ resp.body.rows = {}
  /\ \E ci \in cart : ci.user_id = resp.req.user_id /\ ci.product_id = 1
  /\ \A p \in products : p.id # 1

====
